---- MODULE Spec2Model ----
(***************************************************************************)
(* NaviPe payment router: the payment processing workflow (process.ts,     *)
(* second half of windmill/scripts/payment/routing-engine.ts) and the      *)
(* gateway webhook handler (gateway-webhook, unnamed/part_011), running as *)
(* independent Windmill units of work against one Hasura/PostgreSQL store. *)
(* Every await on the store or on a gateway is one atomic step of the      *)
(* store or gateway; the steps of different invocations interleave freely. *)
(***************************************************************************)
EXTENDS Integers, Sequences, FiniteSets, TLC

\* ---- bounds of the model --------------------------------------------------
NumTx == 1          \* transactions in the store
NumProcs == 2       \* concurrent invocations of process main
NumHooks == 2       \* concurrent webhook deliveries
MaxFaults == 1      \* store requests that fail in one behaviour
NumEvals == 2       \* evaluations of the routing engine in one behaviour

TxIds == 1..NumTx
Procs == 1..NumProcs
Hooks == 1..NumHooks
Evals == 1..NumEvals
NoTx == 0           \* an id that matches no row of transactions
NoId == 0           \* SQL NULL / JS undefined in gateway_transaction_id

\* ---- the store's rows -----------------------------------------------------
Statuses == {"pending", "processing", "success", "failed", "refunded", "cancelled"}

\* payment_method and amount of the stored transactions (never mutated).
TxMethod(t) == IF t % 2 = 1 THEN "card" ELSE "upi"
TxAmount(t) == 100 * t

\* SQL NULL in transactions.net_amount.
NoAmount == -1

\* A row of transactions as intake creates it: status DEFAULT 'pending', no
\* gateway_transaction_id, no gateway_response, metadata DEFAULT '{}', fees
\* DEFAULT 0, no net_amount.
NewTransaction ==
  [status |-> "pending", gtid |-> NoId, resp |-> "null", meta |-> "empty",
   fees |-> 0, net_amount |-> NoAmount]

\* payment_gateways rows: gateway_code -> provider.
GatewayCodes == {"stripe_main", "razorpay_main", "paypal_main"}
ProviderOf(code) ==
  CASE code = "stripe_main"   -> "stripe"
    [] code = "razorpay_main" -> "razorpay"
    [] OTHER                  -> "paypal"

\* Providers whose optional package tryLoadGateway found at construction: a
\* deployment with the Stripe and Razorpay packages installed, PayPal not.
RegisteredProviders == {"stripe", "razorpay"}

\* createGateway: null (FALSE) when no factory function is registered.
CreateGateway(provider) == provider \in RegisteredProviders

\* Merchant configurations: the active merchant_gateways in query order and
\* the active routing_rules in ascending priority.  valid_from and
\* valid_until of a rule are times on the scale of the clock, NullTime for
\* NULL; the query of process neither selects nor filters them.
NullTime == -1
Binding(code, prio) ==
  [gateway |-> [id |-> code, gateway_code |-> code, provider |-> ProviderOf(code)],
   priority |-> prio]
Rule(type, min, max, method, preferred, usePriority) ==
  [rule_type |-> type, valid_from |-> NullTime, valid_until |-> NullTime,
   conditions |-> [amount_min |-> min, amount_max |-> max, payment_method |-> method],
   actions |-> [preferred_gateway |-> preferred, use_priority |-> usePriority]]

MerchantConfigs ==
  { [merchant_gateways |-> << >>, routing_rules |-> << >>],
    [merchant_gateways |-> << Binding("stripe_main", 1), Binding("razorpay_main", 2) >>,
     routing_rules |-> << Rule("method_based", 0, 0, "upi", "razorpay_main", FALSE) >>],
    [merchant_gateways |-> << Binding("stripe_main", 1), Binding("razorpay_main", 2) >>,
     routing_rules |-> << [Rule("method_based", 0, 0, "card", "razorpay_main", FALSE)
                             EXCEPT !.valid_from = 0, !.valid_until = 1] >>] }

VARIABLES
  tx,            \* transactions: id -> [status, gtid, resp, meta]
  merchant,      \* the merchant's gateways and rules
  attempts,      \* routing_attempts rows, in insertion order
  calls,         \* processPayment calls received by gateways, in order
  proc,          \* process invocations: position and locals
  faults,        \* failed store requests so far
  webhooks,      \* webhooks rows, in insertion order
  audit,         \* audit_logs rows, in insertion order
  notified,      \* merchant notifications sent, in order
  hook,          \* webhook deliveries: position and locals
  routingStore,  \* what the routing engine queries: bindings, metrics, rules
  clock,         \* the hour of day new Date().getHours() answers
  route,         \* routing engine evaluations: position and locals
  gateways,      \* the factory's Map: entries [code, fn] in insertion order
  factoryLog     \* what was asked of the factory: registrations, last createGateway

vars == << tx, merchant, attempts, calls, proc, faults, webhooks, audit, notified, hook,
           routingStore, clock, route, gateways, factoryLog >>
factoryVars == << gateways, factoryLog >>
routeVars == << routingStore, clock, route, factoryVars >>
procVars == << attempts, calls, proc, faults >>
hookVars == << webhooks, audit, notified, hook >>

\* ---- pure helpers of process.ts -------------------------------------------

evaluateRule(rule, t) ==
  LET c == rule.conditions IN
  CASE rule.rule_type = "amount" ->
         ~ ( (c.amount_min # 0 /\ TxAmount(t) < c.amount_min)
             \/ (c.amount_max # 0 /\ TxAmount(t) > c.amount_max) )
    [] rule.rule_type = "method_based" ->
         IF c.payment_method # "" THEN TxMethod(t) = c.payment_method ELSE TRUE
    [] OTHER -> TRUE

\* Index of the first binding of minimal priority (a stable ascending sort's
\* first element), 0 for an empty list.
FirstByPriority(mgs) ==
  IF Len(mgs) = 0 THEN 0
  ELSE CHOOSE i \in 1..Len(mgs) :
         /\ \A j \in 1..Len(mgs) : mgs[i].priority <= mgs[j].priority
         /\ \A j \in 1..(i - 1) : mgs[j].priority > mgs[i].priority

\* Index of the binding the rule's action names, 0 when it names none.
applyRuleAction(rule, mgs) ==
  LET a == rule.actions IN
  IF a.preferred_gateway # ""
    THEN IF \E i \in 1..Len(mgs) : mgs[i].gateway.gateway_code = a.preferred_gateway
           THEN CHOOSE i \in 1..Len(mgs) :
                  /\ mgs[i].gateway.gateway_code = a.preferred_gateway
                  /\ \A j \in 1..(i - 1) : mgs[j].gateway.gateway_code # a.preferred_gateway
           ELSE 0
  ELSE IF a.use_priority THEN FirstByPriority(mgs)
  ELSE 0

RECURSIVE selectFrom(_, _, _, _)
selectFrom(rules, k, mgs, t) ==
  IF k > Len(rules) THEN FirstByPriority(mgs)
  ELSE IF evaluateRule(rules[k], t) /\ applyRuleAction(rules[k], mgs) # 0
         THEN applyRuleAction(rules[k], mgs)
  ELSE selectFrom(rules, k + 1, mgs, t)

\* selectGateway: the gateway_code chosen for transaction t, "" for null.
\* The strategy argument is accepted and never read.
selectGateway(m, t, strategy) ==
  LET i == selectFrom(m.routing_rules, 1, m.merchant_gateways, t) IN
  IF i = 0 THEN "" ELSE m.merchant_gateways[i].gateway.gateway_code

\* ---- PaymentResponse shapes built by the gateway base class ---------------
createSuccessResponse(g) == [success |-> TRUE, status |-> "success", gtid |-> g]
createPendingResponse(g) == [success |-> TRUE, status |-> "pending", gtid |-> g]
createErrorResponse == [success |-> FALSE, status |-> "failed", gtid |-> NoId]
NoPayment == [success |-> FALSE, status |-> "none", gtid |-> NoId]

PaymentResponses(g) ==
  { createSuccessResponse(g), createPendingResponse(g), createErrorResponse }

\* ---- process main ----------------------------------------------------------
Strategies == {"default", "failover"}

NoResult ==
  [returned |-> FALSE, success |-> FALSE, error |-> "", gtid |-> NoId, persisted |-> FALSE]
IdleProc ==
  [pc |-> "idle", txId |-> NoTx, strategy |-> "default", loaded |-> "none",
   selected |-> "", pay |-> NoPayment, error |-> "", moved |-> FALSE,
   called |-> FALSE, faulted |-> FALSE, result |-> NoResult]

\* main returns {success, error?, gatewayTransactionId?} after its last
\* request to the store ended with outcome o; persisted records whether that
\* last update was applied.
ProcReturn(p, o, success, error, gtid) ==
  [proc[p] EXCEPT !.pc = "done", !.faulted = @ \/ o # "ok", !.loaded = "none",
                  !.selected = "", !.pay = NoPayment, !.error = "",
                  !.result = [returned |-> TRUE, success |-> success, error |-> error,
                              gtid |-> gtid, persisted |-> (o = "ok")]]

\* update_transactions_by_pk with _set {status, gateway_transaction_id,
\* gateway_response}: all three columns are written; a missing row is a no-op.
updateTransactionStatus(t, status, gtid, resp) ==
  IF t \in TxIds
    THEN [tx EXCEPT ![t] = [@ EXCEPT !.status = status, !.gtid = gtid, !.resp = resp]]
    ELSE tx

\* The three ways a request to the store can end.  makeHasuraRequest of
\* process.ts returns response.json() unchecked, so a request the store
\* rejects ("rejected") is indistinguishable from one it applied ("ok"); only
\* a failed fetch raises ("raise").
StoreOutcomes == {"ok", "rejected", "raise"}
CanFail(o) == o = "ok" \/ faults < MaxFaults
FaultCount(o) == IF o = "ok" THEN faults ELSE faults + 1

\* ---- gateway webhook handler ----------------------------------------------
EventTypes ==
  {"payment.success", "payment.failed", "refund.processed", "dispute.created",
   "payment.processing"}

\* payload.gateway values: two configured gateway codes (one whose provider
\* has no registered implementation) and one with no payment_gateways row.
PayloadGateways == {"stripe_main", "paypal_main", "unknown_gw"}
UnknownGtid == 99   \* a gateway transaction id no transaction carries

\* getGatewayConfig: the payment_gateways row of the code, or null (FALSE).
getGatewayConfig(code) == code \in GatewayCodes

\* verifyWebhookSignature of the handler.  sig is what the gateway
\* implementation's own check answers for the payload (a raise counts as
\* false).
verifyWebhookSignature(code, sig) ==
  IF ~ getGatewayConfig(code) THEN FALSE
  ELSE IF ~ CreateGateway(ProviderOf(code)) THEN TRUE
  ELSE sig

NoUpdate == [has |-> FALSE, transaction_id |-> NoTx, status |-> "", metadata |-> FALSE]
NoHookResult == [returned |-> FALSE, success |-> FALSE, processed |-> FALSE]
IdleHook ==
  [pc |-> "idle", event |-> "", gtid |-> NoId, full |-> FALSE, isValid |-> FALSE,
   checked |-> FALSE, webhookId |-> 0, processed |-> FALSE, update |-> NoUpdate,
   during |-> "none", result |-> NoHookResult]

\* The handler returns {success, processed}; its locals die with it.  What
\* it verified, and the status its transaction had when the event was
\* handled (during), stay on record.
HookReturn(h, success, processed) ==
  [IdleHook EXCEPT !.pc = "done", !.isValid = hook[h].isValid,
                   !.checked = hook[h].checked, !.during = hook[h].during,
                   !.result = [returned |-> TRUE, success |-> success,
                               processed |-> processed]]

\* transactions(where: {gateway_transaction_id: {_eq: g}})
TransactionsByGatewayId(g) == { t \in TxIds : tx[t].gtid = g }

\* Gateway transaction ids a gateway can report on: those it issued in this
\* run and those stored by earlier runs.
KnownGtids == (1..Len(calls)) \cup ({ tx[t].gtid : t \in TxIds } \ {NoId})

\* The transaction a gateway transaction id stands for: the one the call that
\* issued the id was made for, or the row that stores the id.
PaidTransaction(g) ==
  IF g \in 1..Len(calls) THEN calls[g].tx
  ELSE IF TransactionsByGatewayId(g) # {} THEN CHOOSE t \in TransactionsByGatewayId(g) : TRUE
  ELSE NoTx

\* A handler that logs the verification result and carries on regardless.
VerifySignatureNoThrow(h) ==
  /\ hook[h].pc = "idle"
  /\ \E code \in PayloadGateways, sig \in BOOLEAN, ev \in EventTypes,
        g \in KnownGtids \cup {UnknownGtid}, full \in BOOLEAN :
       hook' = [hook EXCEPT ![h] =
                  [@ EXCEPT !.pc = "log", !.event = ev, !.gtid = g,
                            !.full = (full /\ ev = "refund.processed"),
                            !.isValid = verifyWebhookSignature(code, sig),
                            !.checked = (CreateGateway(ProviderOf(code)) /\ sig)]]
  /\ UNCHANGED << tx, merchant, procVars, routeVars, webhooks, audit, notified >>

\* Step 1: verify the signature; an invalid one throws into the catch block,
\* which returns {success: false, processed: false}.
VerifySignature(h) ==
  /\ hook[h].pc = "idle"
  /\ \E code \in PayloadGateways, sig \in BOOLEAN, ev \in EventTypes,
        g \in KnownGtids \cup {UnknownGtid}, full \in BOOLEAN :
       LET isValid == verifyWebhookSignature(code, sig) IN
       hook' = [hook EXCEPT ![h] =
                  IF isValid
                    THEN [@ EXCEPT !.pc = "log", !.event = ev, !.gtid = g,
                                   !.full = (full /\ ev = "refund.processed"),
                                   !.isValid = TRUE,
                                   !.checked = (CreateGateway(ProviderOf(code)) /\ sig)]
                    ELSE HookReturn(h, FALSE, FALSE)]
  /\ UNCHANGED << tx, merchant, procVars, routeVars, webhooks, audit, notified >>

\* A handler that starts on the event without storing the webhook.
LogWebhookSkipped(h) ==
  /\ hook[h].pc = "log"
  /\ hook' = [hook EXCEPT ![h] = [@ EXCEPT !.pc = "handle", !.webhookId = Len(webhooks) + 1]]
  /\ UNCHANGED << tx, merchant, procVars, routeVars, webhooks, audit, notified >>

\* Step 2: insert_webhooks_one, with the payload (the gateway transaction id,
\* whether a refund is a full one).  When the request fails, or the store
\* answers with errors (response.data is undefined and reading the new id
\* raises), the catch block returns {success: false, processed: false}.
LogWebhook(h) ==
  /\ hook[h].pc = "log"
  /\ \E o \in StoreOutcomes :
       /\ CanFail(o)
       /\ faults' = FaultCount(o)
       /\ webhooks' = IF o = "ok"
                        THEN Append(webhooks,
                                    [event_type |-> hook[h].event, payload |-> hook[h].gtid,
                                     refund_full |-> hook[h].full,
                                     processed |-> FALSE, error_message |-> "",
                                     marked |-> 0, by |-> h])
                        ELSE webhooks
       /\ hook' = [hook EXCEPT ![h] =
                     IF o = "ok"
                       THEN [@ EXCEPT !.pc = "handle", !.webhookId = Len(webhooks) + 1]
                       ELSE HookReturn(h, FALSE, FALSE)]
  /\ UNCHANGED << tx, merchant, attempts, calls, proc, routeVars, audit, notified >>

\* handlePaymentSuccess / handlePaymentFailure / handleRefundProcessed on the
\* row t the lookup returned first.
handlePaymentSuccess(t) ==
  IF tx[t].status # "processing" THEN NoUpdate
  ELSE [has |-> TRUE, transaction_id |-> t, status |-> "success", metadata |-> FALSE]
handlePaymentFailure(t) ==
  [has |-> TRUE, transaction_id |-> t, status |-> "failed", metadata |-> FALSE]
handleRefundProcessed(t, full) ==
  [has |-> TRUE, transaction_id |-> t,
   status |-> IF full THEN "refunded" ELSE "success", metadata |-> TRUE]

\* Step 3: the switch on event_type.  The lookup by gateway transaction id
\* has no order_by: with several matches any of them can come first.  The
\* lookup of the three payment events and the audit insert of dispute.created
\* are requests to the store; the other event types make none.  A lookup the
\* store answers with errors raises (response.data is undefined), a rejected
\* audit insert passes unnoticed (makeHasuraRequest returns response.json()
\* unchecked), a failed request raises into the catch block.
HandleEvent(h) ==
  /\ hook[h].pc = "handle"
  /\ LET ev == hook[h].event
         found == TransactionsByGatewayId(hook[h].gtid)
         lookup == ev \in {"payment.success", "payment.failed", "refund.processed"}
     IN
     \E o \in StoreOutcomes :
       /\ CanFail(o)
       /\ (o # "ok") => (lookup \/ ev = "dispute.created")
       /\ faults' = FaultCount(o)
       /\ \E t \in (IF lookup /\ found # {} THEN found ELSE {NoTx}) :
            LET u == IF t = NoTx THEN NoUpdate
                     ELSE IF ev = "payment.success" THEN handlePaymentSuccess(t)
                     ELSE IF ev = "payment.failed" THEN handlePaymentFailure(t)
                     ELSE handleRefundProcessed(t, hook[h].full)
            IN hook' = [hook EXCEPT ![h] =
                          IF o = "raise" \/ (o = "rejected" /\ lookup)
                            THEN HookReturn(h, FALSE, FALSE)
                            ELSE [@ EXCEPT !.update = u,
                                           !.during =
                                              IF PaidTransaction(hook[h].gtid) = NoTx
                                                THEN "none"
                                                ELSE tx[PaidTransaction(hook[h].gtid)].status,
                                           !.processed = (ev # "payment.processing"),
                                           !.pc = IF u.has THEN "update" ELSE "mark"]]
       /\ audit' = IF ev = "dispute.created" /\ o = "ok"
                     THEN Append(audit, [action |-> "dispute_created", by |-> h])
                     ELSE audit
  /\ UNCHANGED << tx, merchant, attempts, calls, proc, routeVars, webhooks, notified >>

\* Step 4: update_transactions_by_pk with _set {status, gateway_response} and
\* _append {metadata}.
updateTransaction(u) ==
  [tx EXCEPT ![u.transaction_id] =
     [@ EXCEPT !.status = u.status, !.resp = "hook",
               !.meta = IF u.metadata THEN "refund" ELSE @]]

UpdateTransaction(h) ==
  /\ hook[h].pc = "update"
  /\ \E o \in StoreOutcomes :
       /\ CanFail(o)
       /\ faults' = FaultCount(o)
       /\ tx' = IF o = "ok" THEN updateTransaction(hook[h].update) ELSE tx
       /\ hook' = [hook EXCEPT ![h] =
                     IF o = "raise" THEN HookReturn(h, FALSE, FALSE)
                     ELSE [@ EXCEPT !.pc = "mark"]]
  /\ UNCHANGED << merchant, attempts, calls, proc, routeVars, webhooks, audit, notified >>

\* Step 5: markWebhookProcessed, then return unless a notification is due.
MarkWebhookProcessed(h) ==
  /\ hook[h].pc = "mark"
  /\ \E o \in StoreOutcomes :
       /\ CanFail(o)
       /\ faults' = FaultCount(o)
       /\ webhooks' = IF o = "ok"
                        THEN [webhooks EXCEPT ![hook[h].webhookId] =
                                [@ EXCEPT !.processed = hook[h].processed, !.marked = @ + 1]]
                        ELSE webhooks
       /\ hook' = [hook EXCEPT ![h] =
                     IF o = "raise" THEN HookReturn(h, FALSE, FALSE)
                     ELSE IF hook[h].update.has
                       THEN [@ EXCEPT !.pc = "notify"]
                       ELSE HookReturn(h, TRUE, hook[h].processed)]
  /\ UNCHANGED << tx, merchant, attempts, calls, proc, routeVars, audit, notified >>

\* Step 6: notifyMerchant for an update with notify_merchant, then return.
\* Its query for the transaction is outside its try block: when it fails, or
\* is answered with errors, main's catch block returns the failure.
NotifyMerchant(h) ==
  /\ hook[h].pc = "notify"
  /\ \E o \in StoreOutcomes :
       /\ CanFail(o)
       /\ faults' = FaultCount(o)
       /\ notified' = IF o = "ok"
                        THEN Append(notified,
                                    [transaction_id |-> hook[h].update.transaction_id,
                                     event |-> hook[h].event, by |-> h])
                        ELSE notified
       /\ hook' = [hook EXCEPT ![h] =
                     IF o = "ok" THEN HookReturn(h, TRUE, hook[h].processed)
                     ELSE HookReturn(h, FALSE, FALSE)]
  /\ UNCHANGED << tx, merchant, attempts, calls, proc, routeVars, webhooks, audit >>

\* ---- routing engine (routing-engine.ts) -------------------------------------
\* Scores are JS numbers with a fractional part (fees); the model carries
\* them in thousandths: ScoreUnit stands for 1.0.
ScoreUnit == 1000

\* payment_gateways.id of a gateway code (a uuid; only equality and the order
\* of identifiers matter).
GatewayId(code) ==
  CASE code = "stripe_main"   -> 1
    [] code = "razorpay_main" -> 2
    [] OTHER                  -> 3

\* The merchant of the routed transactions and another merchant.
ThisMerchant == 1
OtherMerchant == 2

\* A merchant_gateways row joined with its payment_gateways row.
\* fee_percentage DECIMAL(5,4) is carried in thousandths (0.02 is 20).
MerchantGateway(code, m, active, prio, fee, status, methods, currencies) ==
  [merchant_id |-> m, gateway_id |-> GatewayId(code), is_active |-> active,
   priority |-> prio, fee_percentage |-> fee, fee_fixed |-> 0,
   gateway |-> [gateway_code |-> code, status |-> status,
                supported_methods |-> methods, supported_currencies |-> currencies]]

RazorpayBindings ==
  { MerchantGateway("razorpay_main", ThisMerchant, TRUE, 1, 20, "active",
                    {"card", "upi", "wallet"}, {"INR"}),
    MerchantGateway("razorpay_main", ThisMerchant, TRUE, 1, 20, "active",
                    {"card", "upi", "wallet"}, {"USD"}) }
StripeBindings ==
  { MerchantGateway("stripe_main", ThisMerchant, TRUE, 2, 29, "active", {"card", "upi"}, {"INR"}),
    MerchantGateway("stripe_main", ThisMerchant, TRUE, 1, 20, "active", {"card", "upi"}, {"INR"}),
    MerchantGateway("stripe_main", ThisMerchant, TRUE, 2, 29, "active", {"card"}, {"INR"}),
    MerchantGateway("stripe_main", ThisMerchant, FALSE, 1, 20, "active", {"card", "upi"}, {"INR"}) }
PaypalBindings ==
  { MerchantGateway("paypal_main", ThisMerchant, TRUE, 1, 20, "inactive", {"card", "upi"}, {"INR"}),
    MerchantGateway("paypal_main", OtherMerchant, TRUE, 1, 20, "active", {"card", "upi"}, {"INR"}) }

\* merchant_gateways tables: UNIQUE(merchant_id, gateway_id), priorities free.
\* The PayPal rows (an inactive gateway, another merchant's binding) are in
\* every table.
BindingTables ==
  { rz \cup st \cup PaypalBindings :
      rz \in {{}} \cup { {b} : b \in RazorpayBindings },
      st \in {{}} \cup { {b} : b \in StripeBindings } }

\* gateway_health_metrics averaged over the trailing hour, one aggregate per
\* gateway that has rows; both columns are nullable, and an average over
\* NULLs only is null (NullAvg).
NullAvg == -1
Metric(code, rate, ms) ==
  [gateway_id |-> GatewayId(code), success_rate |-> rate, average_response_time_ms |-> ms]
MetricTables ==
  { rz \cup st :
      rz \in { {}, { Metric("razorpay_main", NullAvg, NullAvg) },
               { Metric("razorpay_main", 0, 200) },
               { Metric("razorpay_main", 70, 200) } },
      st \in { {}, { Metric("stripe_main", 60, 200) } } }

\* routing_rules rows: conditions and actions are JSON; an absent key is 0,
\* "" or has = FALSE, an absent distribution entry is 0.  The amount bounds
\* the JSON carries are named in configured (a carried bound can be 0).
\* valid_from and valid_until are times on the scale of the clock, NullTime
\* for NULL.
NoWeights == [c \in GatewayCodes |-> 0]
RoutingRule(name, max, currency, method, window, preferred, avoided, distribution) ==
  [name |-> name, is_active |-> TRUE, valid_from |-> NullTime, valid_until |-> NullTime,
   conditions |-> [amount |-> [min |-> 0, max |-> max,
                               configured |-> IF max # 0 THEN {"max"} ELSE {}],
                   currency |-> currency,
                   payment_method |-> method,
                   time_of_day |-> [has |-> window, start |-> 9, end |-> 17]],
   actions |-> [preferred_gateway |-> preferred, avoided_gateway |-> avoided,
                distribution |-> distribution]]

UpiRouting == RoutingRule("UPI Routing", 0, "", "upi", FALSE, "razorpay_main", "", NoWeights)
SmallAmount == RoutingRule("Small Amount to Razorpay", 50, "INR", "", FALSE, "razorpay_main", "", NoWeights)
AvoidRazorpay == RoutingRule("Avoid Razorpay", 0, "", "", FALSE, "", "razorpay_main", NoWeights)
LoadBalance ==
  RoutingRule("Load Balance", 0, "", "", FALSE, "", "",
              [NoWeights EXCEPT !["stripe_main"] = 30, !["razorpay_main"] = 70])
OfficeHours == RoutingRule("Office Hours", 0, "", "", TRUE, "stripe_main", "", NoWeights)

\* A rule for amounts up to 0, a rule valid until 10 o'clock, a switched-off
\* rule.
ZeroCap ==
  [RoutingRule("Free Only", 0, "", "", FALSE, "stripe_main", "", NoWeights)
     EXCEPT !.conditions.amount.configured = {"max"}]
Lapsing ==
  [RoutingRule("Morning Promotion", 0, "", "", FALSE, "razorpay_main", "", NoWeights)
     EXCEPT !.valid_from = 0, !.valid_until = 10]
SwitchedOff ==
  [RoutingRule("Switched Off", 0, "", "", FALSE, "", "stripe_main", NoWeights)
     EXCEPT !.is_active = FALSE]

\* routing_rules of the merchant in ascending priority.
RuleLists ==
  { << >>, << UpiRouting >>, << SmallAmount >>, << OfficeHours >>,
    << UpiRouting, AvoidRazorpay, LoadBalance >>, << ZeroCap, Lapsing, SwitchedOff >> }

\* The where clause of getRoutingRules at time now, and the rows it returns
\* (order_by priority asc keeps the order of the list).
RuleInForce(rule, now) ==
  /\ rule.is_active
  /\ (rule.valid_from = NullTime \/ rule.valid_from <= now)
  /\ (rule.valid_until = NullTime \/ rule.valid_until > now)
getRoutingRules(rules, now) == SelectSeq(rules, LAMBDA r : RuleInForce(r, now))

RoutedTransactions ==
  { [amount |-> 500, currency |-> "INR", payment_method |-> m, merchant_id |-> ThisMerchant] :
      m \in {"upi", "card"} }
NoTransaction == [amount |-> 0, currency |-> "", payment_method |-> "", merchant_id |-> 0]

Hours == {8, 12}

\* A where clause without the supported_methods condition.
EligibleBindingAnyMethod(mg, transaction) ==
  /\ mg.merchant_id = transaction.merchant_id
  /\ mg.is_active
  /\ mg.gateway.status = "active"
  /\ transaction.currency \in mg.gateway.supported_currencies
\* The where clause of GetAvailableGateways.
EligibleBinding(mg, transaction) ==
  /\ mg.merchant_id = transaction.merchant_id
  /\ mg.is_active
  /\ mg.gateway.status = "active"
  /\ transaction.payment_method \in mg.gateway.supported_methods
  /\ transaction.currency \in mg.gateway.supported_currencies

\* getAvailableGateways: the matching rows in the orders "order_by priority
\* asc" allows (rows of equal priority come in any order), each mapped to
\* {gateway_id, gateway_code, priority, fee_percentage, fee_fixed}.
AvailableRow(mg) ==
  [gateway_id |-> mg.gateway_id, gateway_code |-> mg.gateway.gateway_code,
   priority |-> mg.priority, fee_percentage |-> mg.fee_percentage,
   fee_fixed |-> mg.fee_fixed]
getAvailableGateways(table, transaction) ==
  LET rows == { AvailableRow(mg) : mg \in { b \in table : EligibleBinding(b, transaction) } }
      n == Cardinality(rows)
  IN { s \in [1..n -> rows] :
         /\ \A i, j \in 1..n : i # j => s[i] # s[j]
         /\ \A i, j \in 1..n : i < j => s[i].priority <= s[j].priority }

\* getGatewayHealthMetrics: the aggregates of the given gateways with the
\* defaults "|| 95" and "|| 1000" and the is_healthy verdict.
getGatewayHealthMetrics(table, gatewayIds) ==
  { LET rate == IF m.success_rate \in {NullAvg, 0} THEN 95 ELSE m.success_rate
        ms == IF m.average_response_time_ms \in {NullAvg, 0} THEN 1000
              ELSE m.average_response_time_ms
    IN [gateway_id |-> m.gateway_id, success_rate |-> rate,
        average_response_time_ms |-> ms, is_healthy |-> (rate >= 80 /\ ms <= 5000)] :
    m \in { x \in table : x.gateway_id \in gatewayIds } }

\* A fee that leaves the percentage out.
calculateFeeFixedOnly(amount, percentage, fixed) == fixed * ScoreUnit
\* calculateFee, in thousandths.
calculateFee(amount, percentage, fixed) == (amount * percentage) + fixed * ScoreUnit

\* evaluateRule of the routing engine; hour is new Date().getHours().
routeEvaluateRule(rule, transaction, hour) ==
  LET c == rule.conditions IN
  /\ ~ (c.amount.min # 0 /\ transaction.amount < c.amount.min)
  /\ ~ (c.amount.max # 0 /\ transaction.amount > c.amount.max)
  /\ ~ (c.currency # "" /\ transaction.currency # c.currency)
  /\ ~ (c.payment_method # "" /\ transaction.payment_method # c.payment_method)
  /\ ~ (c.time_of_day.has /\ (hour < c.time_of_day.start \/ hour > c.time_of_day.end))

\* An adjustment without the penalty for the avoided gateway.
applyRuleScoreAdjustmentNoPenalty(rule, code) ==
  LET a == rule.actions IN
  IF a.preferred_gateway = code THEN 50 ELSE a.distribution[code]
applyRuleScoreAdjustment(rule, code) ==
  LET a == rule.actions IN
  IF a.preferred_gateway = code THEN 50
  ELSE IF a.avoided_gateway = code THEN -50
  ELSE a.distribution[code]

\* The rule loop of main: every matching rule's adjustment, in rule order.
RECURSIVE ruleAdjustments(_, _, _, _, _)
ruleAdjustments(rules, k, transaction, code, hour) ==
  IF k > Len(rules) THEN << >>
  ELSE (IF routeEvaluateRule(rules[k], transaction, hour)
          THEN << [name |-> rules[k].name, adjustment |-> applyRuleScoreAdjustment(rules[k], code)] >>
          ELSE << >>)
       \o ruleAdjustments(rules, k + 1, transaction, code, hour)

RECURSIVE SumAdjustments(_, _)
SumAdjustments(adj, k) ==
  IF k > Len(adj) THEN 0 ELSE adj[k].adjustment + SumAdjustments(adj, k + 1)

\* The score of one gateway before the rule loop: base 100, priority term,
\* health term when a metric is found, minus the fee.
scoreBeforeRules(gateway, healthMetrics, transaction) ==
  LET found == { h \in healthMetrics : h.gateway_id = gateway.gateway_id }
      health == IF found = {} THEN 0
                ELSE LET h == CHOOSE x \in found : TRUE
                     IN h.success_rate * ScoreUnit - h.average_response_time_ms * 10
  IN 100 * ScoreUnit + (10 - gateway.priority) * 5 * ScoreUnit + health
     - calculateFee(transaction.amount, gateway.fee_percentage, gateway.fee_fixed)

\* Step 4 of main for one gateway: {...gateway, score, reasons}; reasons
\* keeps the rule entries with a non-zero adjustment.
scoreGateway(gateway, healthMetrics, rules, transaction, hour) ==
  LET adj == ruleAdjustments(rules, 1, transaction, gateway.gateway_code, hour)
      found == { h \in healthMetrics : h.gateway_id = gateway.gateway_id }
  IN [gateway_id |-> gateway.gateway_id, gateway_code |-> gateway.gateway_code,
      priority |-> gateway.priority,
      score |-> scoreBeforeRules(gateway, healthMetrics, transaction)
                + ScoreUnit * SumAdjustments(adj, 1),
      reasons |-> << [name |-> "Priority", adjustment |-> gateway.priority] >>
                  \o (IF found = {} THEN << >>
                      ELSE << [name |-> "Health",
                               adjustment |-> (CHOOSE x \in found : TRUE).success_rate] >>)
                  \o << [name |-> "Fee",
                         adjustment |-> calculateFee(transaction.amount, gateway.fee_percentage,
                                                     gateway.fee_fixed)] >>
                  \o SelectSeq(adj, LAMBDA a : a.adjustment # 0)]

\* A step 5 that filters nothing.
healthFilterNone(scored, healthMetrics) == scored
\* Step 5 of main: drop the gateways whose metric is unhealthy.
healthFilter(scored, healthMetrics) ==
  SelectSeq(scored, LAMBDA g :
    \A h \in healthMetrics : h.gateway_id = g.gateway_id => h.is_healthy)

\* .sort((a, b) => b.score - a.score)[0] of a stable sort: the first element
\* of maximal score, 0 for an empty list.
bestGateway(list) ==
  IF Len(list) = 0 THEN 0
  ELSE CHOOSE i \in 1..Len(list) :
         /\ \A j \in 1..Len(list) : list[j].score <= list[i].score
         /\ \A j \in 1..(i - 1) : list[j].score < list[i].score

NoDecision ==
  [returned |-> FALSE, error |-> "", gateway_id |-> 0, gateway_code |-> "",
   reason |-> << >>, score |-> 0]
IdleRoute ==
  [pc |-> "idle", transaction |-> NoTransaction, available |-> << >>, health |-> {},
   rules |-> << >>, scored |-> << >>, hour |-> 0, result |-> NoDecision]
\* main rejects with the message; its locals die with it.
RouteThrow(e, msg) ==
  [IdleRoute EXCEPT !.pc = "done", !.transaction = route[e].transaction,
                    !.result = [NoDecision EXCEPT !.returned = TRUE, !.error = msg]]

EmptyRoutingStore ==
  [merchant_gateways |-> {}, gateway_health_metrics |-> {}, routing_rules |-> << >>]
RoutingStores ==
  [merchant_gateways : BindingTables, gateway_health_metrics : MetricTables,
   routing_rules : RuleLists]

\* Step 1 of main: getAvailableGateways; an empty list throws.
GetAvailableGateways(e) ==
  /\ route[e].pc = "idle"
  /\ \/ /\ faults < MaxFaults
        /\ faults' = faults + 1
        /\ route' = [route EXCEPT ![e] = RouteThrow(e, "Hasura request failed")]
     \/ /\ \E available \in getAvailableGateways(routingStore.merchant_gateways,
                                                   route[e].transaction) :
             route' = [route EXCEPT ![e] =
                         IF Len(available) = 0
                           THEN RouteThrow(e, "No available gateways for this transaction")
                           ELSE [@ EXCEPT !.pc = "health", !.available = available]]
        /\ UNCHANGED faults
  /\ UNCHANGED << tx, merchant, attempts, calls, proc, hookVars, routingStore, clock, factoryVars >>

\* Step 2 of main: getGatewayHealthMetrics for the available gateways.
GetGatewayHealthMetrics(e) ==
  /\ route[e].pc = "health"
  /\ \/ /\ faults < MaxFaults
        /\ faults' = faults + 1
        /\ route' = [route EXCEPT ![e] =
                       RouteThrow(e, "Hasura request failed")]
     \/ /\ route' = [route EXCEPT ![e] =
                       [@ EXCEPT !.pc = "rules",
                                 !.health = getGatewayHealthMetrics(
                                              routingStore.gateway_health_metrics,
                                              { route[e].available[i].gateway_id :
                                                  i \in 1..Len(route[e].available) })]]
        /\ UNCHANGED faults
  /\ UNCHANGED << tx, merchant, attempts, calls, proc, hookVars, routingStore, clock, factoryVars >>

\* Step 3 of main: getRoutingRules.
GetRoutingRules(e) ==
  /\ route[e].pc = "rules"
  /\ \/ /\ faults < MaxFaults
        /\ faults' = faults + 1
        /\ route' = [route EXCEPT ![e] =
                       RouteThrow(e, "Hasura request failed")]
     \/ /\ route' = [route EXCEPT ![e] =
                       [@ EXCEPT !.pc = "score",
                                 !.rules = getRoutingRules(routingStore.routing_rules, clock)]]
        /\ UNCHANGED faults
  /\ UNCHANGED << tx, merchant, attempts, calls, proc, hookVars, routingStore, clock, factoryVars >>

\* Steps 4 and 5 of main: score every available gateway, filter by health,
\* take the best; no survivor throws.
SelectBestGateway(e) ==
  /\ route[e].pc = "score"
  /\ LET r == route[e]
         scored == [i \in 1..Len(r.available) |->
                      scoreGateway(r.available[i], r.health, r.rules, r.transaction, clock)]
         healthy == healthFilter(scored, r.health)
         b == bestGateway(healthy)
     IN route' = [route EXCEPT ![e] =
                    [@ EXCEPT !.pc = "done", !.scored = scored, !.hour = clock,
                              !.result =
                                IF b = 0
                                  THEN [NoDecision EXCEPT !.returned = TRUE,
                                                          !.error = "No healthy gateways available"]
                                  ELSE [returned |-> TRUE, error |-> "",
                                        gateway_id |-> healthy[b].gateway_id,
                                        gateway_code |-> healthy[b].gateway_code,
                                        reason |-> healthy[b].reasons,
                                        score |-> healthy[b].score]]]
  /\ UNCHANGED << tx, merchant, attempts, calls, proc, faults, hookVars, routingStore, clock,
                  factoryVars >>

\* Time passes between and during evaluations.
Tick ==
  /\ \E h \in Hours : h > clock /\ clock' = h
  /\ UNCHANGED << tx, merchant, attempts, calls, proc, faults, hookVars, routingStore, route,
                  factoryVars >>

\* ---- gateway factory --------------------------------------------------------

\* Gateway codes asked of the factory: the three optional packages and one
\* that only registerGateway can add.  A registered factory function either
\* returns a gateway ("ok") or throws ("throws").
FactoryCodes == {"stripe", "razorpay", "paypal", "custom"}
PackageCodes == << "stripe", "razorpay", "paypal" >>
FactoryFunctions == {"ok", "throws"}

\* Map operations on a sequence of entries in insertion order.
MapHas(map, c) == \E i \in 1..Len(map) : map[i].code = c
MapGet(map, c) ==
  IF MapHas(map, c) THEN (CHOOSE e \in { map[i] : i \in 1..Len(map) } : e.code = c).fn
  ELSE "undefined"
MapSet(map, c, f) ==
  IF MapHas(map, c)
    THEN [i \in 1..Len(map) |-> IF map[i].code = c THEN [code |-> c, fn |-> f] ELSE map[i]]
    ELSE Append(map, [code |-> c, fn |-> f])
\* A delete that leaves the entry in place.
MapDeleteNothing(map, c) == map
MapDelete(map, c) == SelectSeq(map, LAMBDA e : e.code # c)

\* constructor / initializeGateways / tryLoadGateway: the installed packages
\* are set in the order stripe, razorpay, paypal; a loaded class constructs.
RECURSIVE initializeGateways(_, _)
initializeGateways(installed, k) ==
  IF k = 0 THEN << >>
  ELSE LET map == initializeGateways(installed, k - 1) IN
       IF PackageCodes[k] \in installed THEN MapSet(map, PackageCodes[k], "ok") ELSE map

NoCreate == [called |-> FALSE, code |-> "", supported |-> FALSE, fn |-> "", result |-> ""]
NewFactory(installed) ==
  /\ gateways = initializeGateways(installed, Len(PackageCodes))
  /\ factoryLog = [registered |-> installed, removed |-> {}, created |-> NoCreate]

isGatewaySupported(c) == MapHas(gateways, c)
getSupportedGateways == [i \in 1..Len(gateways) |-> gateways[i].code]

registerGateway(c, f) ==
  /\ gateways' = MapSet(gateways, c, f)
  /\ factoryLog' = [factoryLog EXCEPT !.registered = @ \cup {c}, !.removed = @ \ {c}]
  /\ UNCHANGED << tx, merchant, procVars, hookVars, routingStore, clock, route >>

unregisterGateway(c) ==
  /\ gateways' = MapDelete(gateways, c)
  /\ factoryLog' = [factoryLog EXCEPT !.registered = @ \ {c},
                                      !.removed = IF c \in factoryLog.registered
                                                    THEN @ \cup {c} ELSE @]
  /\ UNCHANGED << tx, merchant, procVars, hookVars, routingStore, clock, route >>

\* createGateway: null when the Map has no function for the code, the
\* function's gateway when it returns, null when it throws (caught).
createGateway(c) ==
  /\ factoryLog' = [factoryLog EXCEPT !.created =
                      [called |-> TRUE, code |-> c,
                       supported |-> (c \in factoryLog.registered),
                       fn |-> MapGet(gateways, c),
                       result |-> IF MapGet(gateways, c) = "ok" THEN "gateway" ELSE "null"]]
  /\ UNCHANGED << tx, merchant, procVars, hookVars, routingStore, clock, route, gateways >>

Init ==
  /\ tx = [t \in TxIds |-> NewTransaction]
  /\ merchant \in MerchantConfigs
  /\ attempts = << >>
  /\ calls = << >>
  /\ proc = [p \in Procs |-> IdleProc]
  /\ faults = 0
  /\ webhooks = << >>
  /\ audit = << >>
  /\ notified = << >>
  /\ hook = [h \in Hooks |-> IdleHook]
  /\ routingStore = EmptyRoutingStore
  /\ clock = 8
  /\ route = [e \in Evals |-> IdleRoute]
  /\ NewFactory(RegisteredProviders)

\* Rows of transactions as finished or abandoned process runs leave them:
\* still pending, left in processing, success with the gateway's id, failed.
ProcessedRows(t) ==
  { NewTransaction,
    [NewTransaction EXCEPT !.status = "processing"],
    [NewTransaction EXCEPT !.status = "success", !.gtid = t, !.resp = "pay"],
    [NewTransaction EXCEPT !.status = "failed", !.resp = "err"] }

InitWebhook ==
  /\ tx \in { f \in [TxIds -> UNION { ProcessedRows(t) : t \in TxIds }] :
               \A t \in TxIds : f[t] \in ProcessedRows(t) }
  /\ merchant \in MerchantConfigs
  /\ attempts = << >>
  /\ calls = << >>
  /\ proc = [p \in Procs |-> IdleProc]
  /\ faults = 0
  /\ webhooks = << >>
  /\ audit = << >>
  /\ notified = << >>
  /\ hook = [h \in Hooks |-> IdleHook]
  /\ routingStore = EmptyRoutingStore
  /\ clock = 8
  /\ route = [e \in Evals |-> IdleRoute]
  /\ NewFactory(RegisteredProviders)

\* Step 1: fetch the transaction; not found or status other than pending
\* throws into the catch block.
LoadTransaction(p) ==
  /\ proc[p].pc = "idle"
  /\ \E t \in TxIds \cup {NoTx}, s \in Strategies :
       LET st == IF t \in TxIds THEN tx[t].status ELSE "missing" IN
       proc' = [proc EXCEPT ![p] =
                  [@ EXCEPT !.txId = t, !.strategy = s, !.loaded = st,
                            !.pc = IF st = "pending" THEN "markProcessing" ELSE "catch",
                            !.error = IF st = "missing" THEN "Transaction not found"
                                      ELSE IF st # "pending" THEN "AlreadyProcessed"
                                      ELSE ""]]
  /\ UNCHANGED << tx, merchant, attempts, calls, faults, hookVars, routeVars >>

\* Steps 2 and 3: updateTransactionStatus(id, "processing"), an unconditional
\* update by primary key, then selectGateway on the loaded merchant
\* configuration; a null selection throws.
MarkProcessing(p) ==
  /\ proc[p].pc = "markProcessing"
  /\ \E o \in StoreOutcomes :
       LET g == selectGateway(merchant, proc[p].txId, proc[p].strategy) IN
       /\ CanFail(o)
       /\ faults' = FaultCount(o)
       /\ tx' = IF o = "ok"
                  THEN updateTransactionStatus(proc[p].txId, "processing", NoId, "null")
                  ELSE tx
       /\ proc' = [proc EXCEPT ![p] =
                     IF o = "raise"
                       THEN [@ EXCEPT !.faulted = TRUE, !.pc = "catch", !.error = "fetch failed"]
                       ELSE [@ EXCEPT !.moved = (o = "ok"),
                                      !.faulted = @ \/ o # "ok",
                                      !.selected = g,
                                      !.pc = IF g = "" THEN "catch" ELSE "pay",
                                      !.error = IF g = "" THEN "No suitable gateway" ELSE ""]]
  /\ UNCHANGED << merchant, attempts, calls, hookVars, routeVars >>

\* Step 4: processPaymentThroughGateway.  It raises before any gateway is
\* reached (the dereference of gatewayConfig.gateway, an unsupported
\* provider), or the gateway's processPayment is called and raises, or the
\* call returns one of the response shapes of the gateway base class, or the
\* gateway never answers: the await of line 691 has no timeout around it and
\* the invocation stays there ("awaiting").
ProcessPaymentThroughGateway(p) ==
  /\ proc[p].pc = "pay"
  /\ \/ /\ proc' = [proc EXCEPT ![p] =
                      [@ EXCEPT !.pc = "logFailed", !.error = "GatewayCallError"]]
        /\ UNCHANGED calls
     \/ /\ CreateGateway(ProviderOf(proc[p].selected))
        /\ calls' = Append(calls, [by |-> p, tx |-> proc[p].txId, gateway |-> proc[p].selected])
        /\ \/ proc' = [proc EXCEPT ![p] =
                         [@ EXCEPT !.called = TRUE, !.pc = "logFailed",
                                   !.error = "GatewayCallError"]]
           \/ proc' = [proc EXCEPT ![p] = [@ EXCEPT !.called = TRUE, !.pc = "awaiting"]]
           \/ \E r \in PaymentResponses(Len(calls) + 1) :
                proc' = [proc EXCEPT ![p] =
                           [@ EXCEPT !.called = TRUE, !.pay = r, !.pc = "logSuccess"]]
  /\ UNCHANGED << tx, merchant, attempts, faults, hookVars, routeVars >>

RoutingAttempt(p, status) ==
  [transaction_id |-> proc[p].txId, gateway_id |-> proc[p].selected,
   attempt_number |-> 1, status |-> status, by |-> p]

\* insert_routing_attempts_one
logRoutingAttempt(o, row) == IF o = "ok" THEN Append(attempts, row) ELSE attempts

\* An inner catch that sends the payment to the same gateway once more before
\* it gives up.
LogFailedAttemptAndRetry(p) ==
  /\ proc[p].pc = "logFailed"
  /\ attempts' = Append(attempts, RoutingAttempt(p, "failed"))
  /\ proc' = [proc EXCEPT ![p] =
                [@ EXCEPT !.pc = IF \E i \in 1..Len(attempts) : attempts[i].by = p
                                   THEN "catch" ELSE "pay"]]
  /\ UNCHANGED << tx, merchant, calls, faults, hookVars, routeVars >>

\* The inner catch: log the failed attempt, skip the empty failover branch,
\* rethrow.
LogFailedAttempt(p) ==
  /\ proc[p].pc = "logFailed"
  /\ \E o \in StoreOutcomes :
       /\ CanFail(o)
       /\ faults' = FaultCount(o)
       /\ attempts' = logRoutingAttempt(o, RoutingAttempt(p, "failed"))
       /\ proc' = [proc EXCEPT ![p] =
                     [@ EXCEPT !.faulted = @ \/ o # "ok", !.pc = "catch",
                               !.error = IF o = "raise" THEN "fetch failed" ELSE @]]
  /\ UNCHANGED << tx, merchant, calls, hookVars, routeVars >>

\* Step 5: the call returned, whatever the response says: log a "success"
\* attempt.
LogSuccessAttempt(p) ==
  /\ proc[p].pc = "logSuccess"
  /\ \E o \in StoreOutcomes :
       /\ CanFail(o)
       /\ faults' = FaultCount(o)
       /\ attempts' = logRoutingAttempt(o, RoutingAttempt(p, "success"))
       /\ proc' = [proc EXCEPT ![p] =
                     [@ EXCEPT !.faulted = @ \/ o # "ok",
                               !.pc = IF o = "raise" THEN "catch" ELSE "updateSuccess",
                               !.error = IF o = "raise" THEN "fetch failed" ELSE @]]
  /\ UNCHANGED << tx, merchant, calls, hookVars, routeVars >>

\* Step 6: updateTransactionStatus(id, "success", paymentResult.transactionId,
\* paymentResult) and return success.
UpdateSuccess(p) ==
  /\ proc[p].pc = "updateSuccess"
  /\ \E o \in StoreOutcomes :
       /\ CanFail(o)
       /\ faults' = FaultCount(o)
       /\ tx' = IF o = "ok"
                  THEN updateTransactionStatus(proc[p].txId, "success", proc[p].pay.gtid, "pay")
                  ELSE tx
       /\ proc' = [proc EXCEPT ![p] =
                     IF o = "raise"
                       THEN [@ EXCEPT !.faulted = TRUE, !.pc = "catch", !.error = "fetch failed"]
                       ELSE ProcReturn(p, o, TRUE, "", proc[p].pay.gtid)]
  /\ UNCHANGED << merchant, attempts, calls, hookVars, routeVars >>

\* A catch block that only reports the failure, without the status update.
CatchReturnOnly(p) ==
  /\ proc[p].pc = "catch"
  /\ proc' = [proc EXCEPT ![p] = ProcReturn(p, "ok", FALSE, proc[p].error, NoId)]
  /\ UNCHANGED << tx, faults, merchant, attempts, calls, hookVars, routeVars >>

\* The outer catch: updateTransactionStatus(id, "failed", null, {error}) and
\* return failure; if that request raises, main rejects.
CatchUpdateFailed(p) ==
  /\ proc[p].pc = "catch"
  /\ \E o \in StoreOutcomes :
       /\ CanFail(o)
       /\ faults' = FaultCount(o)
       /\ tx' = IF o = "ok"
                  THEN updateTransactionStatus(proc[p].txId, "failed", NoId, "err")
                  ELSE tx
       /\ proc' = [proc EXCEPT ![p] =
                     IF o = "raise"
                       THEN [@ EXCEPT !.faulted = TRUE, !.pc = "rejected"]
                       ELSE ProcReturn(p, o, FALSE, proc[p].error, NoId)]
  /\ UNCHANGED << merchant, attempts, calls, hookVars, routeVars >>

NextProcess ==
  \/ \E p \in Procs : LoadTransaction(p)
  \/ \E p \in Procs : MarkProcessing(p)
  \/ \E p \in Procs : ProcessPaymentThroughGateway(p)
  \/ \E p \in Procs : LogFailedAttempt(p)
  \/ \E p \in Procs : LogSuccessAttempt(p)
  \/ \E p \in Procs : UpdateSuccess(p)
  \/ \E p \in Procs : CatchUpdateFailed(p)

NextRouting ==
  \/ \E e \in Evals : GetAvailableGateways(e)
  \/ \E e \in Evals : GetGatewayHealthMetrics(e)
  \/ \E e \in Evals : GetRoutingRules(e)
  \/ \E e \in Evals : SelectBestGateway(e)
  \/ Tick

NextWebhook ==
  \/ \E h \in Hooks : VerifySignature(h)
  \/ \E h \in Hooks : LogWebhook(h)
  \/ \E h \in Hooks : HandleEvent(h)
  \/ \E h \in Hooks : UpdateTransaction(h)
  \/ \E h \in Hooks : MarkWebhookProcessed(h)
  \/ \E h \in Hooks : NotifyMerchant(h)

Next == NextProcess \/ NextWebhook

\* Process invocations and webhook deliveries on a fresh store.
Spec == Init /\ [][Next]_vars

\* Process invocations alone.
SpecProcess == Init /\ [][NextProcess]_vars

\* Process invocations under the scheduling of the runtime: an invocation
\* that was started takes its next step whenever it has one (a request to
\* the store always settles); nothing obliges a caller to start an
\* invocation.
ProcessStep(p) ==
  \/ MarkProcessing(p)
  \/ ProcessPaymentThroughGateway(p)
  \/ LogFailedAttempt(p)
  \/ LogSuccessAttempt(p)
  \/ UpdateSuccess(p)
  \/ CatchUpdateFailed(p)
SpecProcessFair == SpecProcess /\ \A p \in Procs : WF_vars(ProcessStep(p))

\* One process invocation on a fresh store and the deliveries the gateway it
\* called sends about that payment: payment.success and payment.failed
\* events carrying the id the gateway issued.
PaymentDelivery(h) ==
  hook[h].pc \notin {"idle", "done"}
    => /\ hook[h].event \in {"payment.success", "payment.failed"}
       /\ hook[h].gtid \in 1..Len(calls)
NextDelivery ==
  \/ \E p \in Procs : (\A q \in Procs : proc[q].pc = "idle") /\ LoadTransaction(p)
  \/ \E p \in Procs : ProcessStep(p)
  \/ NextWebhook /\ \A h \in Hooks : PaymentDelivery(h)'
SpecDelivery == Init /\ [][NextDelivery]_vars

\* Webhook deliveries alone, on transactions as process runs left them.
SpecWebhook == InitWebhook /\ [][NextWebhook]_vars

\* Webhook deliveries handled one after another: a delivery is taken up only
\* when no other one is being handled.
NextInOrder ==
  NextWebhook /\ Cardinality({ h \in Hooks : hook'[h].pc \notin {"idle", "done"} }) <= 1
SpecInOrder == InitWebhook /\ [][NextInOrder]_vars

\* Routing engine evaluations of one transaction over one store content, the
\* clock advancing.
InitRouting ==
  /\ tx = [t \in TxIds |-> NewTransaction]
  /\ merchant = [merchant_gateways |-> << >>, routing_rules |-> << >>]
  /\ attempts = << >>
  /\ calls = << >>
  /\ proc = [p \in Procs |-> IdleProc]
  /\ faults = 0
  /\ webhooks = << >>
  /\ audit = << >>
  /\ notified = << >>
  /\ hook = [h \in Hooks |-> IdleHook]
  /\ routingStore \in RoutingStores
  /\ clock = 8
  /\ \E transaction \in RoutedTransactions :
       route = [e \in Evals |-> [IdleRoute EXCEPT !.transaction = transaction]]
  /\ NewFactory(RegisteredProviders)
SpecRouting == InitRouting /\ [][NextRouting]_vars

\* A gateway factory of a deployment with any of the optional packages
\* installed, under registerGateway, unregisterGateway and createGateway.
InitFactory ==
  /\ tx = [t \in TxIds |-> NewTransaction]
  /\ merchant = [merchant_gateways |-> << >>, routing_rules |-> << >>]
  /\ attempts = << >>
  /\ calls = << >>
  /\ proc = [p \in Procs |-> IdleProc]
  /\ faults = 0
  /\ webhooks = << >>
  /\ audit = << >>
  /\ notified = << >>
  /\ hook = [h \in Hooks |-> IdleHook]
  /\ routingStore = EmptyRoutingStore
  /\ clock = 8
  /\ route = [e \in Evals |-> IdleRoute]
  /\ \E installed \in SUBSET { PackageCodes[k] : k \in 1..Len(PackageCodes) } :
       NewFactory(installed)
NextFactory ==
  \/ \E c \in FactoryCodes, f \in FactoryFunctions : registerGateway(c, f)
  \/ \E c \in FactoryCodes : unregisterGateway(c)
  \/ \E c \in FactoryCodes : createGateway(c)
SpecFactory == InitFactory /\ [][NextFactory]_vars

\* ---- properties -------------------------------------------------------------

\* The step in which invocation p returns / handler h returns.
Returns(p) == proc[p].pc # "done" /\ proc'[p].pc = "done"
HookSteps(h) == hook'[h] # hook[h]

\* C1: two invocations of process on the same transaction, pending when the
\* first of them loaded it: exactly one of them writes processing, and the
\* other returns AlreadyProcessed without having called a gateway (store
\* requests all succeeding).
C1_ExactlyOneProcesses ==
  \A p, q \in Procs :
    ( /\ p # q
      /\ proc[p].pc = "done" /\ proc[q].pc = "done"
      /\ proc[p].txId \in TxIds /\ proc[q].txId = proc[p].txId
      /\ ~ proc[p].faulted /\ ~ proc[q].faulted
      /\ proc[p].moved )
    => ( /\ ~ proc[q].moved
         /\ ~ proc[q].called
         /\ proc[q].result.error = "AlreadyProcessed" )

\* C2: the step in which process gives up with AlreadyProcessed changes no
\* transaction, calls no gateway and records no routing attempt.
C2_AlreadyProcessedIsNoOp ==
  [][ \A p \in Procs :
        (proc[p].error = "AlreadyProcessed" /\ proc'[p] # proc[p])
        => (tx' = tx /\ calls' = calls /\ attempts' = attempts) ]_vars

\* C3: every change of a transaction's status is one of the edges pending ->
\* processing, processing -> success, processing -> failed, success ->
\* refunded.
AllowedEdges ==
  { << "pending", "processing" >>, << "processing", "success" >>,
    << "processing", "failed" >>, << "success", "refunded" >> }
C3_StatusEdges ==
  [][ \A t \in TxIds :
        tx'[t].status # tx[t].status
        => << tx[t].status, tx'[t].status >> \in AllowedEdges ]_vars

C5_FailoverSecondAttempt ==
  \A p \in Procs :
    ( /\ proc[p].pc = "done"
      /\ proc[p].strategy = "failover"
      /\ proc[p].result.error = "GatewayCallError"
      /\ ~ proc[p].faulted
      /\ Len(merchant.merchant_gateways) >= 2 )
    => \E i, j \in 1..Len(attempts) :
         /\ attempts[i].by = p /\ attempts[i].attempt_number = 1
         /\ attempts[j].by = p /\ attempts[j].attempt_number = 2
         /\ attempts[j].gateway_id # attempts[i].gateway_id

C8_InvalidSignatureNoMutation ==
  [][ \A h \in Hooks :
        HookSteps(h)
        => /\ (~ hook'[h].isValid)
                => /\ tx' = tx
                   /\ hook'[h].pc = "done"
                   /\ hook'[h].result = [returned |-> TRUE, success |-> FALSE,
                                         processed |-> FALSE]
           /\ (tx' # tx) => hook[h].isValid ]_vars

C8_Witness ==
  \E h \in Hooks :
    /\ hook[h].pc = "done" /\ ~ hook[h].isValid
    /\ hook[h].result = [returned |-> TRUE, success |-> FALSE, processed |-> FALSE]
    /\ \E t \in TxIds : tx[t].status = "success"

\* C9: every callback the handler has returned from has a webhooks row, and
\* the row of a callback rejected for its signature carries the error.
C9_EveryCallbackRecorded ==
  \A h \in Hooks :
    hook[h].pc = "done"
    => \E i \in 1..Len(webhooks) :
         /\ webhooks[i].by = h
         /\ (~ hook[h].isValid) => webhooks[i].error_message # ""

\* C10: a handler changes a transaction or notifies a merchant only after a
\* gateway implementation's signature check ran on the payload and answered
\* true.
C10_OnlyCheckedPayloadsMutate ==
  [][ \A h \in Hooks :
        (HookSteps(h) /\ (tx' # tx \/ notified' # notified))
        => hook[h].checked ]_vars

\* The outcome an event stands for, and the events that look a transaction up.
LookupEvents == {"payment.success", "payment.failed", "refund.processed"}
TerminalStatuses == {"success", "failed", "refunded"}
EventOutcome(ev, full) ==
  CASE ev = "payment.success" -> "success"
    [] ev = "payment.failed" -> "failed"
    [] ev = "refund.processed" -> IF full THEN "refunded" ELSE "success"
    [] OTHER -> ""

\* C11: when the transaction the event names already has the terminal status
\* the event stands for, the handler plans no write to it and goes straight
\* to marking the webhook row processed.
C11_DuplicateTerminalNoWrite ==
  [][ \A h \in Hooks :
        (hook[h].pc = "handle" /\ HookSteps(h))
        => \A t \in TransactionsByGatewayId(hook[h].gtid) :
             ( /\ tx[t].status \in TerminalStatuses
               /\ tx[t].status = EventOutcome(hook[h].event, hook[h].full) )
             => /\ ~ hook'[h].update.has
                /\ hook'[h].pc = "mark"
                /\ hook'[h].processed ]_vars

\* C12: no transaction is notified twice of the same gateway event, however
\* many times the event was delivered.
C12_AtMostOneNotification ==
  \A i, j \in 1..Len(notified) :
    ( /\ notified[i].transaction_id = notified[j].transaction_id
      /\ notified[i].event = notified[j].event )
    => i = j

\* C13: a verified handler whose event names a gateway transaction id that no
\* transaction carries returns without success, leaves an error on its
\* webhook row and changes no transaction.
C13_OrphanIsTransactionNotFound ==
  [][ \A h \in Hooks :
        ( /\ hook[h].pc # "done" /\ hook'[h].pc = "done"
          /\ hook[h].isValid
          /\ hook[h].webhookId \in 1..Len(webhooks)
          /\ hook[h].event \in LookupEvents
          /\ TransactionsByGatewayId(hook[h].gtid) = {} )
        => /\ ~ hook'[h].result.success
           /\ webhooks'[hook[h].webhookId].error_message # ""
           /\ tx' = tx ]_vars

\* C14: for a transaction found by the event's gateway transaction id and not
\* already in the status the event stands for, the handler plans an update to
\* exactly that status: success, failed, or refunded / success for a full /
\* partial refund.
C14_TargetStatusByEvent ==
  [][ \A h \in Hooks :
        (hook[h].pc = "handle" /\ HookSteps(h) /\ hook[h].event \in LookupEvents)
        => \A t \in TransactionsByGatewayId(hook[h].gtid) :
             tx[t].status # EventOutcome(hook[h].event, hook[h].full)
             => /\ hook'[h].update.has
                /\ hook'[h].update.transaction_id = t
                /\ hook'[h].update.status = EventOutcome(hook[h].event, hook[h].full) ]_vars

\* An evaluation that ran to its end without a failed store request.
Routed(e) == route[e].pc = "done" /\ route[e].result.error # "Hasura request failed"
Selected(e) == route[e].pc = "done" /\ route[e].result.error = ""

\* The scenario of C15: 500.00 INR by upi, razorpay (priority 1, fee 2%) and
\* stripe (priority 2, fee 2.9%) available, no health data, one rule
\* preferring razorpay for upi.
C15_Scenario(e) ==
  /\ route[e].pc = "done"
  /\ route[e].transaction =
       [amount |-> 500, currency |-> "INR", payment_method |-> "upi", merchant_id |-> ThisMerchant]
  /\ route[e].available =
       << [gateway_id |-> GatewayId("razorpay_main"), gateway_code |-> "razorpay_main",
           priority |-> 1, fee_percentage |-> 20, fee_fixed |-> 0],
          [gateway_id |-> GatewayId("stripe_main"), gateway_code |-> "stripe_main",
           priority |-> 2, fee_percentage |-> 29, fee_fixed |-> 0] >>
  /\ route[e].health = {}
  /\ route[e].rules = << UpiRouting >>

C16_AllUnhealthyFallsBack ==
  \A e \in Evals :
    ( /\ Routed(e)
      /\ Len(route[e].available) > 0
      /\ \A i \in 1..Len(route[e].available) :
           \E h \in route[e].health :
             h.gateway_id = route[e].available[i].gateway_id /\ ~ h.is_healthy )
    => /\ route[e].result.error = ""
       /\ \A i \in 1..Len(route[e].scored) : route[e].scored[i].score <= route[e].result.score

\* The scored gateways of e that pass the health filter.
Survivors(e) ==
  { i \in 1..Len(route[e].scored) :
      \A h \in route[e].health :
        h.gateway_id = route[e].scored[i].gateway_id => h.is_healthy }

\* C17: the selection has the maximal score among the survivors of the health
\* filter; no survivor of the same score has a lower priority number, and no
\* survivor of the same score and priority has a smaller gateway identifier.
C17_BestWithTieBreaks ==
  \A e \in Evals :
    Selected(e)
    => \E b \in Survivors(e) :
         /\ route[e].scored[b].gateway_id = route[e].result.gateway_id
         /\ route[e].scored[b].score = route[e].result.score
         /\ \A i \in Survivors(e) :
              LET g == route[e].scored[i]  w == route[e].scored[b] IN
              /\ g.score <= w.score
              /\ g.score = w.score => w.priority <= g.priority
              /\ (g.score = w.score /\ g.priority = w.priority) => w.gateway_id <= g.gateway_id

\* Two evaluations that were given the same transaction, available gateways,
\* health metrics and rules returned the same result.
C18_SameInputsSameResult ==
  \A e, f \in Evals :
    ( /\ Routed(e) /\ Routed(f)
      /\ Len(route[e].scored) > 0 /\ Len(route[f].scored) > 0
      /\ route[e].transaction = route[f].transaction
      /\ route[e].available = route[f].available
      /\ route[e].health = route[f].health
      /\ route[e].rules = route[f].rules )
    => route[e].result = route[f].result

\* C18: evaluations with the same inputs return the same gateway, score and
\* score breakdown whenever they run, and no step of an evaluation changes a
\* transaction, binding, metric or rule.
C18_DeterministicAndPure ==
  [][ /\ C18_SameInputsSameResult'
      /\ routingStore' = routingStore
      /\ tx' = tx ]_vars

\* The rule term as C19 states it: the sum over the rules whose conditions
\* (amount range, currency, payment method, time of day) all hold of +50 for
\* the preferred gateway, -50 for the avoided one, else the distribution
\* weight.
RuleHolds(rule, transaction, hour) ==
  LET c == rule.conditions IN
  /\ (c.amount.min = 0 \/ transaction.amount >= c.amount.min)
  /\ (c.amount.max = 0 \/ transaction.amount <= c.amount.max)
  /\ (c.currency = "" \/ transaction.currency = c.currency)
  /\ (c.payment_method = "" \/ transaction.payment_method = c.payment_method)
  /\ (~ c.time_of_day.has \/ (hour >= c.time_of_day.start /\ hour <= c.time_of_day.end))
RuleDelta(rule, code) ==
  CASE rule.actions.preferred_gateway = code -> 50
    [] rule.actions.preferred_gateway # code /\ rule.actions.avoided_gateway = code -> -50
    [] OTHER -> rule.actions.distribution[code]
RECURSIVE RuleTerm(_, _, _, _, _)
RuleTerm(rules, k, transaction, code, hour) ==
  IF k > Len(rules) THEN 0
  ELSE (IF RuleHolds(rules[k], transaction, hour) THEN RuleDelta(rules[k], code) ELSE 0)
       + RuleTerm(rules, k + 1, transaction, code, hour)

Eligible(transaction) ==
  { mg \in routingStore.merchant_gateways :
      /\ mg.merchant_id = transaction.merchant_id
      /\ mg.is_active
      /\ mg.gateway.status = "active"
      /\ transaction.currency \in mg.gateway.supported_currencies
      /\ transaction.payment_method \in mg.gateway.supported_methods }

\* C20: an evaluation fails with "No available gateways" exactly when no
\* binding is eligible, and a returned selection is the gateway of an
\* eligible binding.
C20_NoEligibleExactly ==
  \A e \in Evals :
    Routed(e)
    => /\ (route[e].result.error = "No available gateways for this transaction")
            <=> (Eligible(route[e].transaction) = {})
       /\ route[e].result.error = ""
            => \E mg \in Eligible(route[e].transaction) :
                 /\ mg.gateway_id = route[e].result.gateway_id
                 /\ mg.gateway.gateway_code = route[e].result.gateway_code

C20_Witness ==
  \E e \in Evals :
    /\ Routed(e)
    /\ route[e].result.error = "No available gateways for this transaction"
    /\ \E mg \in routingStore.merchant_gateways :
         /\ mg.merchant_id = route[e].transaction.merchant_id
         /\ mg.is_active
         /\ mg.gateway.status = "active"
         /\ route[e].transaction.currency \in mg.gateway.supported_currencies
         /\ route[e].transaction.payment_method \notin mg.gateway.supported_methods

\* ---- process against the routing engine -----------------------------------

\* transactions.currency of the stored transactions (never mutated).
TxCurrency(t) == "INR"

\* payment_gateways rows of the deployment: supported_methods and
\* supported_currencies by gateway_code.
SupportedMethods(code) ==
  CASE code = "stripe_main"   -> {"card", "bank_transfer"}
    [] code = "razorpay_main" -> {"card", "upi", "wallet"}
    [] OTHER                  -> {"card", "wallet"}
SupportedCurrencies(code) ==
  CASE code = "stripe_main"   -> {"USD", "EUR", "GBP"}
    [] code = "razorpay_main" -> {"INR"}
    [] OTHER                  -> {"USD", "EUR", "GBP", "AUD"}

\* What the routing engine reads of the store process read: the merchant's
\* active bindings joined with their gateways, the transaction, the rules
\* (the engine reads conditions.payment_method and actions.preferred_gateway
\* of the same JSON; amount_min / amount_max are keys it does not read).
EngineBindings(m) ==
  { MerchantGateway(m.merchant_gateways[i].gateway.gateway_code, ThisMerchant, TRUE,
                    m.merchant_gateways[i].priority, 20, "active",
                    SupportedMethods(m.merchant_gateways[i].gateway.gateway_code),
                    SupportedCurrencies(m.merchant_gateways[i].gateway.gateway_code)) :
      i \in 1..Len(m.merchant_gateways) }
EngineTransaction(t) ==
  [amount |-> TxAmount(t), currency |-> TxCurrency(t), payment_method |-> TxMethod(t),
   merchant_id |-> ThisMerchant]
EngineRules(m) ==
  [k \in 1..Len(m.routing_rules) |->
     RoutingRule("rule", 0, "", m.routing_rules[k].conditions.payment_method, FALSE,
                 m.routing_rules[k].actions.preferred_gateway, "", NoWeights)]

\* The gateway codes the engine's main can return for transaction t ("" when
\* it throws), one per order the store may return the bindings in.
EngineSelections(m, t, metrics, hour) ==
  { LET health == getGatewayHealthMetrics(metrics,
                    { available[i].gateway_id : i \in 1..Len(available) })
        scored == [i \in 1..Len(available) |->
                     scoreGateway(available[i], health, EngineRules(m),
                                  EngineTransaction(t), hour)]
        healthy == healthFilter(scored, health)
        b == bestGateway(healthy)
    IN IF b = 0 THEN "" ELSE healthy[b].gateway_code :
    available \in getAvailableGateways(EngineBindings(m), EngineTransaction(t)) }

StoredMetric(id) == { m \in routingStore.gateway_health_metrics : m.gateway_id = id }

\* Evaluation e had exactly two candidates, i and the other one, with equal
\* priority, equal fee and equal rule deltas, whose stored metrics have the
\* same latency and i's success rate is the higher one.
C22_HigherRate(e, i) ==
  LET r == route[e]
      j == 3 - i
      a == r.available[i]
      b == r.available[j]
  IN /\ a.priority = b.priority
     /\ a.fee_percentage = b.fee_percentage /\ a.fee_fixed = b.fee_fixed
     /\ SumAdjustments(ruleAdjustments(r.rules, 1, r.transaction, a.gateway_code, r.hour), 1)
          = SumAdjustments(ruleAdjustments(r.rules, 1, r.transaction, b.gateway_code, r.hour), 1)
     /\ \E ma \in StoredMetric(a.gateway_id), mb \in StoredMetric(b.gateway_id) :
          /\ ma.average_response_time_ms = mb.average_response_time_ms
          /\ mb.success_rate # NullAvg
          /\ ma.success_rate > mb.success_rate

\* C22: of two candidates with equal fee, equal priority and equal rule
\* deltas that differ only in success rate, the engine returns the one with
\* the higher success rate.
C22_HigherSuccessRateWins ==
  \A e \in Evals : \A i \in 1..2 :
    (route[e].pc = "done" /\ Len(route[e].scored) = 2 /\ C22_HigherRate(e, i))
      => /\ route[e].result.error = ""
         /\ route[e].result.gateway_id = route[e].available[i].gateway_id

\* ---- gateway factory properties -------------------------------------------

\* C23: for every code, isGatewaySupported answers exactly whether the code
\* is in getSupportedGateways(), which is exactly whether it was registered
\* (at construction or by registerGateway) and not unregistered since; a
\* createGateway of an unsupported code, or of one whose registered function
\* throws, returned null (it did not throw).
C23_FactoryConsistent ==
  /\ \A c \in FactoryCodes :
       /\ isGatewaySupported(c)
            <=> (\E i \in 1..Len(getSupportedGateways) : getSupportedGateways[i] = c)
       /\ isGatewaySupported(c) <=> c \in factoryLog.registered
  /\ LET cr == factoryLog.created IN
     (cr.called /\ (~ cr.supported \/ cr.fn = "throws")) => cr.result = "null"
\* A code only registerGateway can add was registered and unregistered again,
\* and the last createGateway ran a registered function that throws.
C23_Witness ==
  /\ "custom" \in factoryLog.removed
  /\ ~ isGatewaySupported("custom")
  /\ factoryLog.created.called /\ factoryLog.created.supported
  /\ factoryLog.created.fn = "throws" /\ factoryLog.created.result = "null"

\* ---- attempts of process ----------------------------------------------------

\* C24: within one invocation no gateway is called twice and the invocation's
\* RoutingAttempts name pairwise different gateways.
C24_NoGatewayTwice ==
  /\ \A i, j \in 1..Len(calls) :
       (i < j /\ calls[i].by = calls[j].by) => calls[i].gateway # calls[j].gateway
  /\ \A i, j \in 1..Len(attempts) :
       (i < j /\ attempts[i].by = attempts[j].by)
         => attempts[i].gateway_id # attempts[j].gateway_id
\* An invocation with the failover strategy whose gateway call raised has
\* logged the failed attempt and returned.
C24_Witness ==
  \E p \in Procs :
    /\ proc[p].pc = "done" /\ proc[p].strategy = "failover" /\ proc[p].called
    /\ proc[p].result.error = "GatewayCallError"
    /\ \E i \in 1..Len(attempts) : attempts[i].by = p /\ attempts[i].status = "failed"
    /\ \E i \in 1..Len(calls) : calls[i].by = p

\* C25: an invocation that found no suitable gateway (and whose store requests
\* all succeeded) has a RoutingAttempt recorded for the failure, returned a
\* failure, and left the transaction failed when it ran alone.
C25_SelectionFailureRecorded ==
  \A p \in Procs :
    (/\ proc[p].pc = "done" /\ proc[p].result.error = "No suitable gateway"
     /\ ~ proc[p].faulted)
      => /\ ~ proc[p].result.success
         /\ \E i \in 1..Len(attempts) :
              attempts[i].by = p /\ attempts[i].transaction_id = proc[p].txId
         /\ (\A q \in Procs \ {p} : proc[q].pc = "idle")
              => tx[proc[p].txId].status = "failed"

\* The rows invocation p recorded for transaction t and gateway g.
AttemptsOf(rows, p, t, g) ==
  { k \in 1..Len(rows) :
      rows[k].by = p /\ rows[k].transaction_id = t /\ rows[k].gateway_id = g }

C27_AttemptNumbersIncrease ==
  \A i, j \in 1..Len(attempts) :
    (i < j /\ attempts[i].transaction_id = attempts[j].transaction_id)
      => attempts[i].attempt_number < attempts[j].attempt_number

SuccessDeliveries(g) ==
  { k \in 1..Len(webhooks) :
      /\ webhooks[k].event_type = "payment.success" /\ webhooks[k].payload = g
      /\ hook[webhooks[k].by].pc = "done"
      /\ hook[webhooks[k].by].during = "processing" }

StatusAfter(status, ev, full) ==
  CASE ev = "payment.success" -> IF status = "processing" THEN "success" ELSE status
    [] ev = "payment.failed" -> "failed"
    [] ev = "refund.processed" -> IF full THEN "refunded" ELSE "success"
    [] OTHER -> status

\* Two verified deliveries about one transaction, stored as rows k1 < k2,
\* both handled to the end with every store request applied.
HandledInOrder(k1, k2) ==
  LET a == webhooks[k1]
      b == webhooks[k2]
  IN /\ k1 < k2 /\ a.payload = b.payload /\ PaidTransaction(a.payload) # NoTx
     /\ faults = 0
     /\ \A r \in {a, b} :
          /\ r.event_type \in {"payment.success", "payment.failed", "refund.processed",
                               "dispute.created"}
          /\ hook[r.by].pc = "done" /\ hook[r.by].checked /\ hook[r.by].result.success

\* The final status is the one the handlers' code gives in the order of
\* handling.
InOrderStatus ==
  \A k1, k2 \in 1..Len(webhooks) :
    HandledInOrder(k1, k2)
      => LET a == webhooks[k1]
             b == webhooks[k2]
         IN tx[PaidTransaction(a.payload)].status
              = StatusAfter(StatusAfter(hook[a.by].during, a.event_type, a.refund_full),
                            b.event_type, b.refund_full)

\* C31: the final status of a transaction after a set of verified gateway
\* events was handled one after another is the one the opposite order of
\* delivery gives.
C31_OrderIndependent ==
  \A k1, k2 \in 1..Len(webhooks) :
    HandledInOrder(k1, k2)
      => LET a == webhooks[k1]
             b == webhooks[k2]
         IN tx[PaidTransaction(a.payload)].status
              = StatusAfter(StatusAfter(hook[a.by].during, b.event_type, b.refund_full),
                            a.event_type, a.refund_full)

\* ---- durability before side effects ------------------------------------------

\* A step of invocation h that writes a transaction, inserts an audit entry
\* or notifies the merchant.
SideEffect(h) ==
  HookSteps(h) /\ (tx' # tx \/ audit' # audit \/ notified' # notified)

\* C32: every transaction write, audit-log insert and merchant notification
\* caused by a verified webhook happens after that webhook's record was
\* inserted.
C32_RecordBeforeEffects ==
  [][\A h \in Hooks :
       SideEffect(h) => (hook[h].isValid /\ \E k \in 1..Len(webhooks) : webhooks[k].by = h)]_vars

\* An invocation whose record is stored has written the transaction and
\* notified the merchant.
C32_Witness ==
  \E h \in Hooks :
    /\ hook[h].pc = "done" /\ hook[h].result.success
    /\ \E k \in 1..Len(webhooks) : webhooks[k].by = h
    /\ \E t \in 1..NumTx : tx[t].resp = "hook"
    /\ \E n \in 1..Len(notified) : notified[n].by = h

\* ---- the processed flag ------------------------------------------------------

\* The stored records whose handling has returned.
HandledRecords ==
  { k \in 1..Len(webhooks) : hook[webhooks[k].by].pc = "done" }

\* C33: every stored WebhookRecord whose handling has returned is processed
\* or carries a processing error, also when a later step of the handling
\* raised; the flag of a record is written at most once and never goes from
\* true back to false.
C33_ProcessedOrError ==
  /\ \A k \in HandledRecords : webhooks[k].processed \/ webhooks[k].error_message # ""
  /\ \A k \in 1..Len(webhooks) : webhooks[k].marked <= 1

\* ---- dispute.created ---------------------------------------------------------

\* Invocation h is handling a dispute.created webhook whose record is stored.
HandlingDispute(h) ==
  hook[h].event = "dispute.created" /\ hook[h].pc \in {"handle", "update", "mark", "notify"}

\* C34: handling a dispute.created webhook leaves every transaction unchanged
\* and notifies no merchant; when the handling returns success its record is
\* marked processed and exactly one audit-log entry was inserted for it.
C34_DisputeAuditOnly ==
  [][\A h \in Hooks :
       (HandlingDispute(h) /\ HookSteps(h))
         => /\ tx' = tx
            /\ notified' = notified
            /\ (hook'[h].pc = "done" /\ hook'[h].result.success)
                 => /\ webhooks'[hook[h].webhookId].processed
                    /\ Cardinality({ n \in 1..Len(audit') : audit'[n].by = h }) = 1]_vars

\* ---- health defaults ---------------------------------------------------------

\* The metric of exactly 95% and 1000 ms for gateway id.
NeutralMetric(id) ==
  [gateway_id |-> id, success_rate |-> 95, average_response_time_ms |-> 1000,
   is_healthy |-> TRUE]

\* C35: a candidate with no health metric is scored as an otherwise identical
\* candidate whose metric is exactly 95% and 1000 ms.
C35_NoMetricScoredAsNeutral ==
  \A e \in Evals :
    Selected(e) =>
      \A i \in 1..Len(route[e].available) :
        StoredMetric(route[e].available[i].gateway_id) = {}
          => route[e].scored[i].score
               = scoreGateway(route[e].available[i],
                              route[e].health \cup {NeutralMetric(route[e].available[i].gateway_id)},
                              route[e].rules, route[e].transaction, route[e].hour).score

\* The candidates of evaluation e whose fetched metric is marked unhealthy.
MarkedUnhealthy(e) ==
  { i \in 1..Len(route[e].available) :
      \E h \in route[e].health :
        h.gateway_id = route[e].available[i].gateway_id /\ ~ h.is_healthy }

C37_UnhealthyExactly ==
  \A e \in Evals :
    \A h \in route[e].health :
      \A m \in StoredMetric(h.gateway_id) :
        (m.success_rate # NullAvg /\ m.average_response_time_ms # NullAvg)
          => /\ h.success_rate = m.success_rate
             /\ h.average_response_time_ms = m.average_response_time_ms
             /\ h.is_healthy = ~ (m.success_rate < 80 \/ m.average_response_time_ms > 5000)

\* ---- rule conditions ---------------------------------------------------------

\* Every condition the rule carries holds: the amount within each carried
\* bound, the currency, the payment method, the hour within the window.
CarriedConditionsHold(rule, transaction, hour) ==
  LET c == rule.conditions IN
  /\ ("min" \in c.amount.configured => transaction.amount >= c.amount.min)
  /\ ("max" \in c.amount.configured => transaction.amount <= c.amount.max)
  /\ (c.currency # "" => transaction.currency = c.currency)
  /\ (c.payment_method # "" => transaction.payment_method = c.payment_method)
  /\ (c.time_of_day.has => (hour >= c.time_of_day.start /\ hour <= c.time_of_day.end))

\* The score breakdown of candidate i names the rule.
InReasons(e, i, rule) ==
  \E n \in 1..Len(route[e].scored[i].reasons) : route[e].scored[i].reasons[n].name = rule.name

\* C38: a rule of the evaluation enters a candidate's score exactly when
\* every condition it carries holds for the transaction, a carried amount
\* bound of 0 included.
C38_RuleMatchesExactly ==
  \A e \in Evals :
    \A i \in 1..Len(route[e].scored) : \A k \in 1..Len(route[e].rules) :
      LET rule == route[e].rules[k] IN
      applyRuleScoreAdjustment(rule, route[e].scored[i].gateway_code) # 0
        => (InReasons(e, i, rule)
              <=> CarriedConditionsHold(rule, route[e].transaction, route[e].hour))

\* ---- validity of rules -------------------------------------------------------

\* The merchant configuration with only the rules whose validity window
\* holds the time now.
RulesInForce(m, now) ==
  [m EXCEPT !.routing_rules =
     SelectSeq(@, LAMBDA r : /\ (r.valid_from = NullTime \/ r.valid_from <= now)
                             /\ (r.valid_until = NullTime \/ r.valid_until > now))]

\* C39: the gateway process selects for a transaction is the one the rules
\* in force select, in ascending priority: a rule outside its validity
\* window has no influence on the choice.
C39_LapsedRulesIgnored ==
  \A p \in Procs :
    proc[p].selected # ""
      => proc[p].selected
           = selectGateway(RulesInForce(merchant, clock), proc[p].txId, proc[p].strategy)

\* ---- pending responses -------------------------------------------------------

====
